---- MODULE Spec2Model ----
(***************************************************************************)
(* The paged block allocator of candle-vllm: src/scheduler/block_engine.rs *)
(* (Allocator<T>, BlockEngine) driven by a scheduler that issues each      *)
(* mutating call after its admission query.  A panic (unwrap on None, the  *)
(* double-free panic!, assert!, stack exhaustion) ends the run: the        *)
(* variable panic records it and the state is left as the handler had it   *)
(* at that point.                                                          *)
(***************************************************************************)
EXTENDS Integers, Sequences, FiniteSets, TLC

\* ------------------------------------------------------------- bounds
\* BlockEngine::new(block_size, num_gpu_blocks, num_cpu_blocks)
BlockSize == 2
NumGpuBlocks == 3
NumCpuBlocks == 2
\* sequence ids handed out by the scheduler: 1..NumSeqs
NumSeqs == 3
\* sequences per group
MaxGroupSize == 2
\* tokens of a prompt, and of a sequence after appends
MaxPrompt == 4
MaxTokens == 4

VARIABLES
    blocks,        \* Arc<PhysicalTokenBlock> -> the _PhysicalTokenBlock behind its Mutex
    gpu_free,      \* gpu_allocator.free_blocks (a Vec used as a stack)
    cpu_free,      \* cpu_allocator.free_blocks
    block_tables,  \* BlockEngine.block_tables: HashMap<SeqID, BlockTable>
    panic,         \* "none", or why the process panicked
    groups,        \* the SequenceGroups the scheduler has created (sets of seq ids)
    ntok,          \* tokens held by each sequence's logical blocks (0: not created)
    call,          \* the last call made on the engine and what it returned
    ltb            \* a LogicalTokenBlock of some sequence

vars == <<blocks, gpu_free, cpu_free, block_tables, panic, groups, ntok, call, ltb>>

SeqIds == 1..NumSeqs

\* The Arc allocations made by the two Allocator::new: one per pool and index.
GpuArcs == {[pool |-> "gpu", idx |-> i] : i \in 0..(NumGpuBlocks - 1)}
CpuArcs == {[pool |-> "cpu", idx |-> i] : i \in 0..(NumCpuBlocks - 1)}
Arcs == GpuArcs \cup CpuArcs

\* Allocator<GPUAllocator>::new: the block pushed for `id`
NewGpuBlock(id) ==
    [block_id |-> id, block_size |-> BlockSize, refcount |-> 0, is_gpu |-> TRUE]

\* Allocator<CPUAllocator>::new: the block pushed for `id` (the source writes
\* is_gpu: true here as well)
NewCpuBlock(id) ==
    [block_id |-> id, block_size |-> BlockSize, refcount |-> 0, is_gpu |-> TRUE]

\* free_blocks after `for id in 0..num_blocks { free_blocks.push(..) }`
InitFreeList(pool, n) == [i \in 1..n |-> [pool |-> pool, idx |-> i - 1]]

\* ------------------------------------------------- the engine as a value
\* The handlers below are functions from engine value to engine value, so
\* that a handler's calls compose and a panic stops what follows it.
Engine ==
    [blocks |-> blocks, gpu_free |-> gpu_free, cpu_free |-> cpu_free,
     block_tables |-> block_tables, panic |-> panic]

NoBlock == [pool |-> "none", idx |-> 0]

Panicked(e) == e.panic # "none"

Raise(e, why) == [e EXCEPT !.panic = why]

FreeList(e, pool) == IF pool = "gpu" THEN e.gpu_free ELSE e.cpu_free

WithFreeList(e, pool, fl) ==
    IF pool = "gpu" THEN [e EXCEPT !.gpu_free = fl] ELSE [e EXCEPT !.cpu_free = fl]

\* Allocator::allocate: free_blocks.pop().unwrap(), refcount = 1
Allocator_allocate(e, pool) ==
    LET fl == FreeList(e, pool) IN
    IF fl = <<>>
    THEN [e |-> Raise(e, "pop_empty"), block |-> NoBlock]
    ELSE LET b == fl[Len(fl)]
             e1 == WithFreeList(e, pool, SubSeq(fl, 1, Len(fl) - 1))
         IN [e |-> [e1 EXCEPT !.blocks[b].refcount = 1], block |-> b]

\* Allocator::free_block without the refcount == 0 check: a second free returns
Allocator_free_block_unchecked(e, pool, b) ==
    IF e.blocks[b].refcount = 0
    THEN e
    ELSE LET e1 == [e EXCEPT !.blocks[b].refcount = @ - 1] IN
         IF e1.blocks[b].refcount = 0
         THEN WithFreeList(e1, pool, Append(FreeList(e1, pool), b))
         ELSE e1

\* Allocator::free_block: panic on refcount 0, else decrement and push at 0
Allocator_free_block(e, pool, b) ==
    IF e.blocks[b].refcount = 0
    THEN Raise(e, "double_free")
    ELSE LET e1 == [e EXCEPT !.blocks[b].refcount = @ - 1] IN
         IF e1.blocks[b].refcount = 0
         THEN WithFreeList(e1, pool, Append(FreeList(e1, pool), b))
         ELSE e1

\* Allocator::get_num_free_blocks
get_num_free_blocks(e, pool) == Len(FreeList(e, pool))

\* ------------------------------------------- the sequence layer (sequence.rs)
\* Logical blocks holding n tokens: a new LogicalTokenBlock is started when
\* the last one is full.
get_logical_token_blocks(n) == (n + BlockSize - 1) \div BlockSize

\* SequenceGroup::get_total_logical_token_blocks: the logical blocks needed to
\* hold the group's current tokens; the sequences of a group hold the same
\* prompt when the group is allocated.
get_total_logical_token_blocks(g, tokens) ==
    LET s == CHOOSE x \in g : TRUE IN get_logical_token_blocks(tokens[s])

\* Sequence::blocks_to_add_new_tok: 1 when the last logical block is full
blocks_to_add_new_tok(s) ==
    IF ntok[s] > 0 /\ ntok[s] % BlockSize = 0 THEN 1 ELSE 0

RECURSIVE SumOver(_, _)
SumOver(S, f) ==
    IF S = {} THEN 0
    ELSE LET x == CHOOSE y \in S : TRUE IN f[x] + SumOver(S \ {x}, f)

\* SequenceGroup::total_blocks_to_add_new_tok
total_blocks_to_add_new_tok(g) ==
    SumOver(g, [s \in g |-> blocks_to_add_new_tok(s)])

\* The group a sequence belongs to
GroupOf(s) == CHOOSE g \in groups : s \in g

\* The ids the scheduler has used so far, and the next k fresh ones
UsedIds == UNION groups

FreshGroup(k) ==
    LET base == IF UsedIds = {} THEN 0
                ELSE CHOOSE m \in UsedIds : \A x \in UsedIds : x <= m
    IN (base + 1)..(base + k)

\* ------------------------------------------------------- BlockEngine
\* BlockEngine::can_allocate
can_allocate(e, num_required_blocks) ==
    LET num_free_gpu_blocks == get_num_free_blocks(e, "gpu") IN
    IF NumGpuBlocks > num_free_gpu_blocks + num_required_blocks THEN "Later"
    ELSE IF NumGpuBlocks < num_required_blocks THEN "Impossible"
    ELSE "Ok"

\* BlockEngine::allocate, first loop: one gpu_allocator.allocate() per logical
\* block, pushed onto block_table
RECURSIVE allocate_blocks(_, _, _)
allocate_blocks(e, n, block_table) ==
    IF n = 0 THEN [e |-> e, block_table |-> block_table]
    ELSE LET r == Allocator_allocate(e, "gpu") IN
         IF Panicked(r.e) THEN [e |-> r.e, block_table |-> block_table]
         ELSE allocate_blocks(r.e, n - 1, Append(block_table, r.block))

\* HashMap::insert for every key of ks (a clone of the same table for each)
InsertTables(tables, ks, block_table) ==
    [s \in (DOMAIN tables) \cup ks |->
        IF s \in ks THEN block_table ELSE tables[s]]

\* BlockEngine::allocate
BlockEngine_allocate(e, g, num_required_blocks) ==
    LET r == allocate_blocks(e, num_required_blocks, <<>>) IN
    IF Panicked(r.e) THEN r.e
    ELSE [r.e EXCEPT !.block_tables = InsertTables(@, g, r.block_table)]

\* BlockEngine::can_append_token_to_seq
can_append_token_to_seq(e, g) ==
    total_blocks_to_add_new_tok(g) <= get_num_free_blocks(e, "gpu")

\* BlockEngine::free_sequence, the loop over the table from slot i on
RECURSIVE free_table(_, _, _)
free_table(e, block_table, i) ==
    IF i > Len(block_table) \/ Panicked(e) THEN e
    ELSE LET block == block_table[i]
             e1 == IF e.blocks[block].is_gpu
                   THEN Allocator_free_block(e, "gpu", block)
                   ELSE Allocator_free_block(e, "cpu", block)
         IN free_table(e1, block_table, i + 1)

RemoveKey(tables, s) == [k \in (DOMAIN tables) \ {s} |-> tables[k]]

\* BlockEngine::free_sequence
BlockEngine_free_sequence(e, s) ==
    IF s \notin DOMAIN e.block_tables THEN Raise(e, "unwrap_none")
    ELSE LET e1 == free_table(e, e.block_tables[s], 1) IN
         IF Panicked(e1) THEN e1
         ELSE [e1 EXCEPT !.block_tables = RemoveKey(@, s)]

None == <<>>
Some(x) == <<x>>

\* append_token_slot_to_seq without the `refcount == 1` test of line 330: a
\* last block is copied whatever its refcount
BlockEngine_append_token_slot_to_seq_always_copy(e, s, need) ==
    IF s \notin DOMAIN e.block_tables
    THEN [e |-> Raise(e, "unwrap_none"), ret |-> None]
    ELSE LET table == e.block_tables[s] IN
    CASE need = 1 ->
           LET r == Allocator_allocate(e, "gpu") IN
           IF Panicked(r.e) THEN [e |-> r.e, ret |-> None]
           ELSE [e |-> [r.e EXCEPT !.block_tables[s] = Append(@, r.block)],
                 ret |-> None]
      [] need = 0 ->
           IF table = <<>> THEN [e |-> Raise(e, "unwrap_none"), ret |-> None]
           ELSE LET last_block == table[Len(table)]
                    r == Allocator_allocate(e, "gpu") IN
                IF Panicked(r.e) THEN [e |-> r.e, ret |-> None]
                ELSE LET e1 == Allocator_free_block(r.e, "gpu", last_block) IN
                     IF Panicked(e1) THEN [e |-> e1, ret |-> None]
                     ELSE [e |-> [e1 EXCEPT !.block_tables[s][Len(table)] = r.block],
                           ret |-> Some(<<e1.blocks[last_block].block_id,
                                          e1.blocks[r.block].block_id>>)]
      [] OTHER -> [e |-> Raise(e, "unreachable"), ret |-> None]

\* BlockEngine::append_token_slot_to_seq: [e, ret]
BlockEngine_append_token_slot_to_seq(e, s, need) ==
    IF s \notin DOMAIN e.block_tables
    THEN [e |-> Raise(e, "unwrap_none"), ret |-> None]
    ELSE LET table == e.block_tables[s] IN
    CASE need = 1 ->
           LET r == Allocator_allocate(e, "gpu") IN
           IF Panicked(r.e) THEN [e |-> r.e, ret |-> None]
           ELSE [e |-> [r.e EXCEPT !.block_tables[s] = Append(@, r.block)],
                 ret |-> None]
      [] need = 0 ->
           IF table = <<>> THEN [e |-> Raise(e, "unwrap_none"), ret |-> None]
           ELSE LET last_block == table[Len(table)] IN
           IF ~e.blocks[last_block].is_gpu
           THEN [e |-> Raise(e, "assert_is_gpu"), ret |-> None]
           ELSE IF e.blocks[last_block].refcount = 1
           THEN [e |-> e, ret |-> None]
           ELSE LET r == Allocator_allocate(e, "gpu") IN
                IF Panicked(r.e) THEN [e |-> r.e, ret |-> None]
                ELSE LET e1 == Allocator_free_block(r.e, "gpu", last_block) IN
                     IF Panicked(e1) THEN [e |-> e1, ret |-> None]
                     ELSE [e |-> [e1 EXCEPT !.block_tables[s][Len(table)] = r.block],
                           ret |-> Some(<<e1.blocks[last_block].block_id,
                                          e1.blocks[r.block].block_id>>)]
      [] OTHER -> [e |-> Raise(e, "unreachable"), ret |-> None]

\* blocks_required counted over distinct blocks instead of table slots
blocks_required_deduplicated(e, g) ==
    Cardinality({e.block_tables[s][i] :
                   <<s, i>> \in {x \in (g \cap DOMAIN e.block_tables) \X (1..(NumGpuBlocks + MaxTokens)) :
                                    x[2] <= Len(e.block_tables[x[1]])}})

\* BlockEngine::can_swap_out_seq_group / can_swap_in_seq_group: the summed
\* table lengths of the group's sequences that have a table
blocks_required(e, g) ==
    SumOver(g \cap DOMAIN e.block_tables,
            [s \in g \cap DOMAIN e.block_tables |-> Len(e.block_tables[s])])

can_swap_out_seq_group(e, g) == blocks_required(e, g) <= Len(e.cpu_free)

can_swap_in_seq_group(e, g) == blocks_required(e, g) <= Len(e.gpu_free)

\* impl Hash / impl PartialEq for PhysicalTokenBlock: `self.deref()` on a
\* &PhysicalTokenBlock is <&PhysicalTokenBlock as Deref>::deref (the type has
\* no Deref impl of its own; its lock accessor is deref_mut), which yields the
\* same &PhysicalTokenBlock, so hash and eq call themselves without end and
\* the call never returns: the stack is exhausted.
PhysicalTokenBlock_hash_returns == FALSE

\* HashMap::contains_key on new_mapping: an empty table answers without
\* hashing the key; any other lookup hashes it.
HashMap_contains_key(e, m, k) ==
    IF DOMAIN m = {} THEN [e |-> e, found |-> FALSE]
    ELSE IF PhysicalTokenBlock_hash_returns
    THEN [e |-> e, found |-> k \in DOMAIN m]
    ELSE [e |-> Raise(e, "stack_overflow"), found |-> FALSE]

\* HashMap::insert on new_mapping: hashes the key
HashMap_insert(e, m, k, v) ==
    IF PhysicalTokenBlock_hash_returns
    THEN [e |-> e, m |-> [x \in (DOMAIN m) \cup {k} |-> IF x = k THEN v ELSE m[x]]]
    ELSE [e |-> Raise(e, "stack_overflow"), m |-> m]

\* The inner loop of swap_out / swap_in over one block table, from slot i on:
\* [e, m, new_block_table]
RECURSIVE swap_slots(_, _, _, _, _, _, _)
swap_slots(e, m, block_table, i, new_block_table, alloc_pool, free_pool) ==
    IF i > Len(block_table) \/ Panicked(e)
    THEN [e |-> e, m |-> m, new_block_table |-> new_block_table]
    ELSE
    LET src == block_table[i]
        c == HashMap_contains_key(e, m, src)
    IN
    IF Panicked(c.e) THEN [e |-> c.e, m |-> m, new_block_table |-> new_block_table]
    ELSE
    LET got == IF c.found
               THEN \* Reuse a block
                    [e |-> [e EXCEPT !.blocks[m[src]].refcount = @ + 1],
                     m |-> m, block |-> m[src]]
               ELSE \* Create a new block
                    LET r == Allocator_allocate(e, alloc_pool) IN
                    IF Panicked(r.e) THEN [e |-> r.e, m |-> m, block |-> NoBlock]
                    ELSE LET ins == HashMap_insert(r.e, m, src, r.block) IN
                         [e |-> ins.e, m |-> ins.m, block |-> r.block]
    IN
    IF Panicked(got.e)
    THEN [e |-> got.e, m |-> got.m, new_block_table |-> new_block_table]
    ELSE swap_slots(Allocator_free_block(got.e, free_pool, src), got.m,
                    block_table, i + 1, Append(new_block_table, got.block),
                    alloc_pool, free_pool)

\* The outer loop over seq_group.get_seqs(), visited in `order`, from j on:
\* [e, m]
RECURSIVE swap_seqs(_, _, _, _, _, _)
swap_seqs(e, m, order, j, alloc_pool, free_pool) ==
    IF j > Len(order) \/ Panicked(e) THEN [e |-> e, m |-> m]
    ELSE
    LET seq_id == order[j] IN
    IF seq_id \notin DOMAIN e.block_tables
    THEN [e |-> Raise(e, "unwrap_none"), m |-> m]
    ELSE
    LET r == swap_slots(e, m, e.block_tables[seq_id], 1, <<>>,
                        alloc_pool, free_pool)
    IN
    IF Panicked(r.e) THEN [e |-> r.e, m |-> r.m]
    ELSE swap_seqs([r.e EXCEPT !.block_tables[seq_id] = r.new_block_table],
                   r.m, order, j + 1, alloc_pool, free_pool)

\* The returned HashMap<usize, usize>: block_id of each key -> block_id of its value
MappingIds(e, m) ==
    {<<e.blocks[k].block_id, e.blocks[m[k]].block_id>> : k \in DOMAIN m}

EmptyMap == [x \in {} |-> NoBlock]

\* BlockEngine::swap_out: new blocks from cpu_allocator, old ones released
\* through gpu_allocator.  [e, ret]
BlockEngine_swap_out(e, order) ==
    LET r == swap_seqs(e, EmptyMap, order, 1, "cpu", "gpu") IN
    [e |-> r.e, ret |-> IF Panicked(r.e) THEN {} ELSE MappingIds(r.e, r.m)]

\* BlockEngine::swap_in: the source takes the new blocks from cpu_allocator
\* and releases the old ones through gpu_allocator here as well.  [e, ret]
BlockEngine_swap_in(e, order) ==
    LET r == swap_seqs(e, EmptyMap, order, 1, "cpu", "gpu") IN
    [e |-> r.e, ret |-> IF Panicked(r.e) THEN {} ELSE MappingIds(r.e, r.m)]

\* -------------------------------------------------- LogicalTokenBlock
\* LogicalTokenBlock::new: tokens = vec![0].repeat(block_size), num_tokens = 0
LogicalTokenBlock_new(block_id, block_size) ==
    [tokens |-> [i \in 1..block_size |-> 0], block_id |-> block_id,
     block_size |-> block_size, num_tokens |-> 0]

\* LogicalTokenBlock::is_full
is_full(lb) == lb.num_tokens = lb.block_size

\* append_token_id without the assert of line 33: a full block takes the token
\* in its last slot
append_token_id_unchecked(lb, token) ==
    IF lb.block_size = 0 THEN [lb |-> lb, panic |-> "none"]
    ELSE IF is_full(lb)
    THEN [lb |-> [lb EXCEPT !.tokens[lb.block_size] = token], panic |-> "none"]
    ELSE [lb |-> [lb EXCEPT !.tokens[lb.num_tokens + 1] = token,
                            !.num_tokens = @ + 1],
          panic |-> "none"]

\* LogicalTokenBlock::append_token_id: [lb, panic]; tokens[num_tokens] of the
\* source is slot num_tokens + 1 here
append_token_id(lb, token) ==
    IF is_full(lb) THEN [lb |-> lb, panic |-> "assert_not_full"]
    ELSE [lb |-> [lb EXCEPT !.tokens[lb.num_tokens + 1] = token,
                            !.num_tokens = @ + 1],
          panic |-> "none"]

\* LogicalTokenBlock::append_tokens: append_token_id for each token in turn,
\* from the i-th on; a panic ends the loop
RECURSIVE append_tokens(_, _, _)
append_tokens(lb, tokens, i) ==
    IF i > Len(tokens) THEN [lb |-> lb, panic |-> "none"]
    ELSE LET r == append_token_id(lb, tokens[i]) IN
         IF r.panic # "none" THEN r
         ELSE append_tokens(r.lb, tokens, i + 1)

\* ---------------------------------------------------------- the machine
\* BlockEngine::new, and a scheduler that has created no sequence yet
Init ==
    /\ blocks = [b \in Arcs |-> IF b.pool = "gpu" THEN NewGpuBlock(b.idx)
                                ELSE NewCpuBlock(b.idx)]
    /\ gpu_free = InitFreeList("gpu", NumGpuBlocks)
    /\ cpu_free = InitFreeList("cpu", NumCpuBlocks)
    /\ block_tables = [s \in {} |-> <<>>]
    /\ panic = "none"
    /\ groups = {}
    /\ ntok = [s \in SeqIds |-> 0]
    /\ call = [op |-> "new", group |-> {}, seq |-> 0, ret |-> None]
    /\ ltb = LogicalTokenBlock_new(0, BlockSize)

\* The engine value e becomes the state
Commit(e) ==
    /\ blocks' = e.blocks
    /\ gpu_free' = e.gpu_free
    /\ cpu_free' = e.cpu_free
    /\ block_tables' = e.block_tables
    /\ panic' = e.panic

\* All orders in which the HashMap seq_group.get_seqs() may be iterated
Orders(g) ==
    {o \in [1..Cardinality(g) -> g] : \A i, j \in DOMAIN o : i # j => o[i] # o[j]}

\* The scheduler admits a new group of k sequences on a prompt of p tokens:
\* can_allocate answered Ok, then allocate
Allocate(k, p) ==
    LET g == FreshGroup(k)
        tokens == [s \in SeqIds |-> IF s \in g THEN p ELSE ntok[s]]
        required == get_total_logical_token_blocks(g, tokens)
    IN /\ panic = "none"
       /\ g \subseteq SeqIds
       /\ can_allocate(Engine, required) = "Ok"
       /\ Commit(BlockEngine_allocate(Engine, g, required))
       /\ groups' = groups \cup {g}
       /\ ntok' = tokens
       /\ call' = [op |-> "allocate", group |-> g, seq |-> 0, ret |-> None]
       /\ UNCHANGED ltb

\* can_append_token_to_seq answered true for the group of s, then
\* append_token_slot_to_seq(s); the token then enters s's logical blocks
AppendTokenSlot(s) ==
    /\ panic = "none"
    /\ s \in DOMAIN block_tables
    /\ ntok[s] < MaxTokens
    /\ can_append_token_to_seq(Engine, GroupOf(s))
    /\ LET r == BlockEngine_append_token_slot_to_seq(Engine, s, blocks_to_add_new_tok(s))
       IN /\ Commit(r.e)
          /\ ntok' = IF Panicked(r.e) THEN ntok ELSE [ntok EXCEPT ![s] = @ + 1]
          /\ call' = [op |-> "append_token_slot_to_seq", group |-> GroupOf(s),
                      seq |-> s, ret |-> r.ret]
    /\ UNCHANGED <<groups, ltb>>

\* free_sequence(s), once for a sequence that has a table
FreeSequence(s) ==
    /\ panic = "none"
    /\ s \in DOMAIN block_tables
    /\ Commit(BlockEngine_free_sequence(Engine, s))
    /\ call' = [op |-> "free_sequence", group |-> GroupOf(s), seq |-> s, ret |-> None]
    /\ UNCHANGED <<groups, ntok, ltb>>

\* can_swap_out_seq_group answered true, then swap_out
SwapOut(g) ==
    /\ panic = "none"
    /\ g \subseteq DOMAIN block_tables
    /\ can_swap_out_seq_group(Engine, g)
    /\ \E order \in Orders(g) :
         LET r == BlockEngine_swap_out(Engine, order)
         IN /\ Commit(r.e)
            /\ call' = [op |-> "swap_out", group |-> g, seq |-> 0, ret |-> r.ret]
    /\ UNCHANGED <<groups, ntok, ltb>>

\* can_swap_in_seq_group answered true, then swap_in
SwapIn(g) ==
    /\ panic = "none"
    /\ g \subseteq DOMAIN block_tables
    /\ can_swap_in_seq_group(Engine, g)
    /\ \E order \in Orders(g) :
         LET r == BlockEngine_swap_in(Engine, order)
         IN /\ Commit(r.e)
            /\ call' = [op |-> "swap_in", group |-> g, seq |-> 0, ret |-> r.ret]
    /\ UNCHANGED <<groups, ntok, ltb>>

\* The scheduler asks can_swap_out_seq_group(g); the answer is kept in call
CanSwapOutQuery(g) ==
    /\ panic = "none"
    /\ call' = [op |-> "can_swap_out_seq_group", group |-> g,
                answer |-> can_swap_out_seq_group(Engine, g)]
    /\ UNCHANGED <<blocks, gpu_free, cpu_free, block_tables, panic, groups, ntok, ltb>>

\* The scheduler asks can_swap_in_seq_group(g); the answer is kept in call
CanSwapInQuery(g) ==
    /\ panic = "none"
    /\ call' = [op |-> "can_swap_in_seq_group", group |-> g,
                answer |-> can_swap_in_seq_group(Engine, g)]
    /\ UNCHANGED <<blocks, gpu_free, cpu_free, block_tables, panic, groups, ntok, ltb>>

Next ==
    \/ \E k \in 1..MaxGroupSize, p \in 1..MaxPrompt : Allocate(k, p)
    \/ \E s \in SeqIds : AppendTokenSlot(s)
    \/ \E s \in SeqIds : FreeSequence(s)
    \/ \E g \in groups : SwapOut(g)
    \/ \E g \in groups : SwapIn(g)

Spec == Init /\ [][Next]_vars

\* Groups are admitted and their sequences freed, and the swap admission
\* queries are asked at any moment
NextQuery ==
    \/ \E k \in 1..MaxGroupSize, p \in 1..MaxPrompt : Allocate(k, p)
    \/ \E s \in SeqIds : FreeSequence(s)
    \/ \E g \in groups : CanSwapOutQuery(g)
    \/ \E g \in groups : CanSwapInQuery(g)

SpecQuery == Init /\ [][NextQuery]_vars

\* ------------------------------------------ a LogicalTokenBlock on its own
MaxBlockSize == 3
MaxBlockId == 1
MaxTokenId == 2
MaxAppend == 3

TokenIds == 1..MaxTokenId

TokenLists == UNION {[1..n -> TokenIds] : n \in 0..MaxAppend}

Min(a, b) == IF a <= b THEN a ELSE b

\* LogicalTokenBlock::new(block_id, block_size); call.appended keeps the tokens
\* the block has accepted since, in the order of the calls
InitLTB ==
    /\ blocks = [b \in Arcs |-> IF b.pool = "gpu" THEN NewGpuBlock(b.idx)
                                ELSE NewCpuBlock(b.idx)]
    /\ gpu_free = InitFreeList("gpu", NumGpuBlocks)
    /\ cpu_free = InitFreeList("cpu", NumCpuBlocks)
    /\ block_tables = [s \in {} |-> <<>>]
    /\ panic = "none"
    /\ groups = {}
    /\ ntok = [s \in SeqIds |-> 0]
    /\ \E block_id \in 0..MaxBlockId, block_size \in 0..MaxBlockSize :
         ltb = LogicalTokenBlock_new(block_id, block_size)
    /\ call = [op |-> "new", tokens |-> <<>>, appended |-> <<>>]

\* append_token_id(token)
LTBAppendTokenId(token) ==
    /\ panic = "none"
    /\ LET r == append_token_id(ltb, token)
       IN /\ ltb' = r.lb
          /\ panic' = r.panic
    /\ call' = [op |-> "append_token_id", tokens |-> <<token>>,
                appended |-> call.appended \o
                    SubSeq(<<token>>, 1, Min(1, ltb.block_size - ltb.num_tokens))]
    /\ UNCHANGED <<blocks, gpu_free, cpu_free, block_tables, groups, ntok>>

\* append_tokens(tokens)
LTBAppendTokens(tokens) ==
    /\ panic = "none"
    /\ LET r == append_tokens(ltb, tokens, 1)
       IN /\ ltb' = r.lb
          /\ panic' = r.panic
    /\ call' = [op |-> "append_tokens", tokens |-> tokens,
                appended |-> call.appended \o
                    SubSeq(tokens, 1, Min(Len(tokens), ltb.block_size - ltb.num_tokens))]
    /\ UNCHANGED <<blocks, gpu_free, cpu_free, block_tables, groups, ntok>>

NextLTB ==
    \/ \E token \in TokenIds : LTBAppendTokenId(token)
    \/ \E tokens \in TokenLists : LTBAppendTokens(tokens)

SpecLTB == InitLTB /\ [][NextLTB]_vars

\* ------------------------------------------------- the pools on their own
\* Allocator<T> taken alone: its blocks may carry any refcount a holder of the
\* Arc has left (swap's `refcount += 1` raises it past 1), and a block is on
\* the free list exactly when its refcount is 0.
MaxRefcount == 2

InitPool ==
    /\ \E rc \in [Arcs -> 0..MaxRefcount] :
         /\ blocks = [b \in Arcs |->
                        [(IF b.pool = "gpu" THEN NewGpuBlock(b.idx)
                          ELSE NewCpuBlock(b.idx)) EXCEPT !.refcount = rc[b]]]
         /\ gpu_free = SelectSeq(InitFreeList("gpu", NumGpuBlocks), LAMBDA b : rc[b] = 0)
         /\ cpu_free = SelectSeq(InitFreeList("cpu", NumCpuBlocks), LAMBDA b : rc[b] = 0)
    /\ block_tables = [s \in {} |-> <<>>]
    /\ panic = "none"
    /\ groups = {}
    /\ ntok = [s \in SeqIds |-> 0]
    /\ call = [op |-> "new", group |-> {}, seq |-> 0, ret |-> None]
    /\ ltb = LogicalTokenBlock_new(0, BlockSize)

\* allocator.free_block(b) on the pool that made b
PoolFreeBlock(b) ==
    /\ panic = "none"
    /\ Commit(Allocator_free_block(Engine, b.pool, b))
    /\ call' = [op |-> "free_block", pool |-> b.pool, block |-> b]
    /\ UNCHANGED <<groups, ntok, ltb>>

\* allocator.allocate() on a pool whose free list is not empty
PoolAllocate(pool) ==
    /\ panic = "none"
    /\ FreeList(Engine, pool) # <<>>
    /\ LET r == Allocator_allocate(Engine, pool)
       IN /\ Commit(r.e)
          /\ call' = [op |-> "allocate_block", pool |-> pool, block |-> r.block]
    /\ UNCHANGED <<groups, ntok, ltb>>

NextPool ==
    \/ \E b \in Arcs : PoolFreeBlock(b)
    \/ \E pool \in {"gpu", "cpu"} : PoolAllocate(pool)

SpecPool == InitPool /\ [][NextPool]_vars

\* ------------------------------------------------------------- claims
\* The (sequence id, table slot) entries of `tables` that refer to block b
SlotsOf(tables, b) ==
    {<<s, i>> \in (DOMAIN tables) \X (1..(NumGpuBlocks + NumCpuBlocks + MaxTokens)) :
        i <= Len(tables[s]) /\ tables[s][i] = b}

TableRefs(b) == Cardinality(SlotsOf(block_tables, b))

InList(fl, b) == \E i \in DOMAIN fl : fl[i] = b

\* The free list of the pool that created b
OwnFreeList(b) == IF b.pool = "gpu" THEN gpu_free ELSE cpu_free

\* The blocks a set of sequences refers to
BlocksOf(tables, g) ==
    {tables[s][i] : <<s, i>> \in {x \in (g \cap DOMAIN tables) \X (1..(NumGpuBlocks + NumCpuBlocks + MaxTokens)) :
                                     x[2] <= Len(tables[x[1]])}}

\* C1  Refcount conservation: after any sequence of admitted allocate,
\* append_token_slot_to_seq and free_sequence calls, every block's refcount
\* equals the number of (sequence id, table slot) entries that refer to it.
C1_RefcountConservation ==
    (panic = "none" /\ call.op \in {"new", "allocate", "append_token_slot_to_seq", "free_sequence"})
        => \A b \in Arcs : blocks[b].refcount = TableRefs(b)

\* C2  Full reclaim: free_sequence, called once for each sequence of an
\* allocated group, never aborts, and once no sequence is live every fast-tier
\* block is back in the fast-tier free list.
C2_FullReclaim ==
    /\ call.op = "free_sequence" => panic = "none"
    /\ (panic = "none" /\ DOMAIN block_tables = {})
          => /\ Len(gpu_free) = NumGpuBlocks
             /\ \A b \in GpuArcs : InList(gpu_free, b)

\* C3  Admission soundness: an allocate issued after can_allocate answered Ok
\* does not pop from an empty free list, and the fast-tier free count drops by
\* exactly the required logical-block count.
C3_AdmissionSoundness ==
    [][call'.op = "allocate"
         => /\ panic' = "none"
            /\ Len(gpu_free') =
                 Len(gpu_free) - get_total_logical_token_blocks(call'.group, ntok')
            /\ Len(gpu_free') >= 0]_vars

\* What the tri-state is to answer for `required` blocks
TriState(required, free, total) ==
    IF required > total THEN "Impossible"
    ELSE IF required > free THEN "Later"
    ELSE "Ok"

\* C4  can_allocate tri-state: Impossible exactly when required > capacity,
\* Later exactly when required <= capacity and required > free, Ok otherwise.
C4_CanAllocateTriState ==
    panic = "none" =>
        \A required \in 1..(NumGpuBlocks + 1) :
            can_allocate(Engine, required)
                = TriState(required, Len(gpu_free), NumGpuBlocks)

\* What copy-on-write by sequence s on its last block is to leave behind
CowPost(s) ==
    LET table == block_tables[s]
        old == table[Len(table)]
    IN /\ panic' = "none"
       /\ s \in DOMAIN block_tables'
       /\ Len(block_tables'[s]) = Len(table)
       /\ LET new == block_tables'[s][Len(table)] IN
          /\ new # old
          /\ new.pool = "gpu"
          /\ InList(gpu_free, new)
          /\ Len(gpu_free') = Len(gpu_free) - 1
          /\ blocks'[new].refcount = 1
          /\ blocks'[old].refcount = blocks[old].refcount - 1
          /\ call'.ret = Some(<<blocks[old].block_id, blocks[new].block_id>>)
          /\ \A i \in 1..(Len(table) - 1) : block_tables'[s][i] = table[i]
          /\ \A x \in SlotsOf(block_tables, old) :
                x[1] # s => /\ x[1] \in DOMAIN block_tables'
                            /\ block_tables'[x[1]][x[2]] = old
          /\ Cardinality(SlotsOf(block_tables', old)) = TableRefs(old) - 1

\* C5  Copy-on-write: append_token_slot_to_seq with growth need 0 on a last
\* block that N >= 2 table slots refer to takes one reference off that block,
\* puts one new fast-tier block of refcount 1 in this sequence's last slot,
\* returns Some((old id, new id)) and leaves the other N-1 references alone.
C5_CopyOnWrite ==
    [][\A s \in DOMAIN block_tables :
         (/\ call'.op = "append_token_slot_to_seq"
          /\ call'.seq = s
          /\ blocks_to_add_new_tok(s) = 0
          /\ TableRefs(block_tables[s][Len(block_tables[s])]) >= 2)
         => CowPost(s)]_vars

\* C6  Group sharing triggers copy-on-write: allocate for a group of n >= 2
\* siblings leaves every allocated block shared by all of them with refcount
\* n, so the first append with growth need 0 by one sibling copies: it returns
\* Some((old id, new id)), the shared block's refcount drops by one, the new
\* block's refcount is 1 and the siblings still point to the old block.
C6_GroupSharingCow ==
    [][\A s \in SeqIds :
         (/\ call.op = "allocate" /\ panic = "none"
          /\ Cardinality(call.group) >= 2 /\ s \in call.group
          /\ call'.op = "append_token_slot_to_seq" /\ call'.seq = s
          /\ blocks_to_add_new_tok(s) = 0)
         => LET n == Cardinality(call.group)
                old == block_tables[s][Len(block_tables[s])]
                new == block_tables'[s][Len(block_tables[s])]
            IN /\ \A s2 \in call.group :
                    /\ block_tables[s2] = block_tables[s]
                    /\ \A i \in DOMAIN block_tables[s2] :
                          blocks[block_tables[s2][i]].refcount = n
               /\ panic' = "none"
               /\ call'.ret = Some(<<blocks[old].block_id, blocks[new].block_id>>)
               /\ new # old
               /\ blocks'[old].refcount = n - 1
               /\ blocks'[new].refcount = 1
               /\ \A s2 \in call.group \ {s} :
                     block_tables'[s2] = block_tables[s2]]_vars

\* C7  Free-list / table disjointness: a block of refcount 0 is in its tier's
\* free list and in no block table; a block of refcount > 0 is in no free list
\* (so no pool hands out a block that a table still refers to).
C7_FreeListTableDisjoint ==
    panic = "none" =>
        \A b \in Arcs :
            /\ blocks[b].refcount = 0
                  => InList(OwnFreeList(b), b) /\ TableRefs(b) = 0
            /\ blocks[b].refcount > 0
                  => ~InList(gpu_free, b) /\ ~InList(cpu_free, b)

\* C8  Swap deduplication: a swap_out or swap_in of a group in which two
\* tables share a source block completes with both new tables holding the
\* same destination block in those slots, one destination block per distinct
\* source block, and each destination refcount equal to the references
\* mapped to it.
C8_SwapDeduplication ==
    [][\A g \in groups :
         (/\ call'.op \in {"swap_out", "swap_in"}
          /\ call'.group = g
          /\ \E s1, s2 \in g : s1 # s2 /\ BlocksOf(block_tables, {s1}) \cap BlocksOf(block_tables, {s2}) # {})
         => /\ panic' = "none"
            /\ \A s \in g : Len(block_tables'[s]) = Len(block_tables[s])
            /\ \A s1, s2 \in g : \A i \in DOMAIN block_tables[s1], j \in DOMAIN block_tables[s2] :
                  block_tables[s1][i] = block_tables[s2][j]
                     => block_tables'[s1][i] = block_tables'[s2][j]
            /\ Cardinality(BlocksOf(block_tables', g)) = Cardinality(BlocksOf(block_tables, g))
            /\ \A d \in BlocksOf(block_tables', g) :
                  blocks'[d].refcount = Cardinality(SlotsOf(block_tables', d))]_vars

\* What a completed swap of group g from pool `from` to pool `to` leaves
SwapPost(g, from, to) ==
    LET to_free == IF to = "gpu" THEN gpu_free ELSE cpu_free
        from_free_after == IF from = "gpu" THEN gpu_free' ELSE cpu_free'
    IN /\ panic' = "none"
       /\ \A d \in BlocksOf(block_tables', g) :
             /\ d.pool = to
             /\ blocks'[d].is_gpu = (to = "gpu")
             /\ InList(to_free, d)
       /\ \A src \in BlocksOf(block_tables, g) :
             SlotsOf(block_tables', src) = {} => InList(from_free_after, src)

\* C9  Swap direction: after swap_in every table of the group holds only
\* fast-tier blocks taken from the fast-tier free list and the sources are
\* released into the slow-tier pool; after swap_out every table holds only
\* slow-tier blocks taken from the slow-tier free list and the sources are
\* released into the fast-tier pool.
C9_SwapDirection ==
    [][\A g \in groups :
         /\ (call'.op = "swap_in" /\ call'.group = g) => SwapPost(g, "cpu", "gpu")
         /\ (call'.op = "swap_out" /\ call'.group = g) => SwapPost(g, "gpu", "cpu")]_vars

\* C10  No aliasing across tiers: every block made by the slow-tier pool is
\* tagged slow and every block made by the fast-tier pool is tagged fast, in
\* every reachable state, and each free list holds only blocks of its tier.
C10_NoAliasingAcrossTiers ==
    /\ \A b \in Arcs : blocks[b].is_gpu = (b.pool = "gpu")
    /\ \A i \in DOMAIN gpu_free : gpu_free[i].pool = "gpu" /\ blocks[gpu_free[i]].is_gpu
    /\ \A i \in DOMAIN cpu_free : cpu_free[i].pool = "cpu" /\ ~blocks[cpu_free[i]].is_gpu

\* How often b occurs in the list fl
Occurrences(fl, b) == Cardinality({i \in DOMAIN fl : fl[i] = b})

\* C11  Double-free fatality: free_block of a block of refcount 0 panics and
\* leaves the refcount at 0 and the free lists as they were; from refcount 1
\* it brings the refcount to 0 and pushes the block on the free list once;
\* from a refcount > 1 it only decrements.
C11_DoubleFreeFatality ==
    [][call'.op = "free_block" =>
         LET b == call'.block
             fl == IF b.pool = "gpu" THEN gpu_free ELSE cpu_free
             fl_after == IF b.pool = "gpu" THEN gpu_free' ELSE cpu_free'
             other_same == IF b.pool = "gpu" THEN cpu_free' = cpu_free
                           ELSE gpu_free' = gpu_free
         IN /\ other_same
            /\ \A x \in Arcs \ {b} : blocks'[x] = blocks[x]
            /\ CASE blocks[b].refcount = 0 ->
                      /\ panic' = "double_free"
                      /\ blocks'[b].refcount = 0
                      /\ fl_after = fl
                 [] blocks[b].refcount = 1 ->
                      /\ panic' = "none"
                      /\ blocks'[b].refcount = 0
                      /\ fl_after = Append(fl, b)
                      /\ Occurrences(fl_after, b) = Occurrences(fl, b) + 1
                 [] OTHER ->
                      /\ panic' = "none"
                      /\ blocks'[b].refcount = blocks[b].refcount - 1
                      /\ fl_after = fl]_vars

\* A free of a block whose refcount was already 0 has panicked
C11_Witness ==
    /\ call.op = "free_block"
    /\ panic = "double_free"
    /\ blocks[call.block].refcount = 0
    /\ InList(OwnFreeList(call.block), call.block)

\* C12  free_sequence effect and frame: free_sequence(s) completes, takes one
\* reference off a block for every slot of s's table that holds it, returns a
\* block that reaches refcount 0 to the free list of the pool it belongs to,
\* removes s's table entry and leaves every other table as it was.
C12_FreeSequenceEffect ==
    [][call'.op = "free_sequence" =>
         LET s == call'.seq
             table == block_tables[s]
         IN /\ panic' = "none"
            /\ \A b \in Arcs :
                  /\ blocks'[b].refcount =
                        blocks[b].refcount - Cardinality({i \in DOMAIN table : table[i] = b})
                  /\ (blocks[b].refcount > 0 /\ blocks'[b].refcount = 0)
                        => IF b.pool = "gpu"
                           THEN InList(gpu_free', b) /\ ~InList(cpu_free', b)
                           ELSE InList(cpu_free', b) /\ ~InList(gpu_free', b)
            /\ s \notin DOMAIN block_tables'
            /\ \A s2 \in (DOMAIN block_tables) \ {s} :
                  s2 \in DOMAIN block_tables' /\ block_tables'[s2] = block_tables[s2]]_vars

\* C13  Swap result mapping: swap_out / swap_in returns a mapping with exactly
\* one entry per distinct source block of the group's tables, and the block
\* put in slot i of each new table has the id the mapping gives for the id of
\* the block that was in slot i.
C13_SwapResultMapping ==
    [][\A g \in groups :
         (call'.op \in {"swap_out", "swap_in"} /\ call'.group = g)
         => /\ panic' = "none"
            /\ Cardinality(call'.ret) = Cardinality(BlocksOf(block_tables, g))
            /\ \A s \in g :
                  /\ Len(block_tables'[s]) = Len(block_tables[s])
                  /\ \A i \in DOMAIN block_tables[s] :
                        <<blocks[block_tables[s][i]].block_id,
                          blocks'[block_tables'[s][i]].block_id>> \in call'.ret]_vars

\* C14  Append without copy: append_token_slot_to_seq on a sequence with
\* growth need 1 takes exactly one fast-tier block off the free list, puts it
\* at the end of that sequence's table (length + 1, fast free count - 1) and
\* returns None; with growth need 0 and a last block of refcount 1 it returns
\* None and tables, refcounts and both free lists are unchanged; in both
\* cases the tables of the other sequences are unchanged.
C14_AppendWithoutCopy ==
    [][call'.op = "append_token_slot_to_seq" =>
         LET s == call'.seq
             table == block_tables[s]
             need == blocks_to_add_new_tok(s)
         IN /\ need = 1 =>
                 /\ panic' = "none"
                 /\ call'.ret = None
                 /\ Len(block_tables'[s]) = Len(table) + 1
                 /\ SubSeq(block_tables'[s], 1, Len(table)) = table
                 /\ LET b == block_tables'[s][Len(table) + 1]
                    IN /\ b.pool = "gpu"
                       /\ gpu_free = Append(gpu_free', b)
                       /\ blocks'[b].refcount = 1
                       /\ \A c \in Arcs \ {b} : blocks'[c] = blocks[c]
                 /\ Len(gpu_free') = Len(gpu_free) - 1
                 /\ cpu_free' = cpu_free
                 /\ \A s2 \in (DOMAIN block_tables) \ {s} :
                       s2 \in DOMAIN block_tables' /\ block_tables'[s2] = block_tables[s2]
            /\ (need = 0 /\ table # <<>> /\ blocks[table[Len(table)]].refcount = 1) =>
                 /\ panic' = "none"
                 /\ call'.ret = None
                 /\ block_tables' = block_tables
                 /\ blocks' = blocks
                 /\ gpu_free' = gpu_free
                 /\ cpu_free' = cpu_free]_vars

\* an append with growth need 1 has completed on a sequence whose table now
\* has two blocks, while another sequence holds a table
C14_Witness ==
    /\ call.op = "append_token_slot_to_seq"
    /\ panic = "none"
    /\ call.ret = None
    /\ ntok[call.seq] > 1
    /\ (ntok[call.seq] - 1) % BlockSize = 0
    /\ Len(block_tables[call.seq]) >= 2
    /\ \E s2 \in (DOMAIN block_tables) \ {call.seq} : block_tables[s2] # <<>>

\* The table slots of the sequences of g, one per (sequence, position)
GroupSlots(g) ==
    {x \in (g \cap DOMAIN block_tables) \X (1..(NumGpuBlocks + MaxTokens)) :
        x[2] <= Len(block_tables[x[1]])}

\* C15  Swap admission formula: can_swap_out_seq_group(group) is true iff the
\* number of table slots of the group's sequences, counted per sequence and not
\* deduplicated, is <= the number of free slow-tier blocks;
\* can_swap_in_seq_group(group) is true iff the same number is <= the number
\* of free fast-tier blocks; neither query changes the engine.
C15_SwapAdmissionFormula ==
    [][call'.op \in {"can_swap_out_seq_group", "can_swap_in_seq_group"} =>
         /\ call'.op = "can_swap_out_seq_group" =>
               (call'.answer <=> Cardinality(GroupSlots(call'.group)) <= Len(cpu_free))
         /\ call'.op = "can_swap_in_seq_group" =>
               (call'.answer <=> Cardinality(GroupSlots(call'.group)) <= Len(gpu_free))
         /\ UNCHANGED <<blocks, gpu_free, cpu_free, block_tables, panic>>]_vars

\* can_swap_out_seq_group has answered false for a group whose tables share
\* their blocks: the slots outnumber the free slow-tier blocks, the distinct
\* blocks do not
C15_Witness ==
    /\ call.op = "can_swap_out_seq_group"
    /\ call.answer = FALSE
    /\ Cardinality(GroupSlots(call.group)) > Len(cpu_free)
    /\ Cardinality(BlocksOf(block_tables, call.group)) <= Len(cpu_free)

\* C16  LogicalTokenBlock bound: after any sequence of append_token_id /
\* append_tokens calls num_tokens <= block_size, and the tokens the block has
\* accepted lie in its first num_tokens positions in the order they were
\* appended; append_token_id on a full block aborts and leaves the block as it
\* was; append_tokens of k tokens into a block with r free slots appends all k
\* when k <= r, and otherwise appends the first r and then aborts.
C16_LogicalTokenBlockBound ==
    /\ [](/\ ltb.num_tokens <= ltb.block_size
          /\ Len(ltb.tokens) = ltb.block_size
          /\ Len(call.appended) = ltb.num_tokens
          /\ \A i \in 1..Len(call.appended) : ltb.tokens[i] = call.appended[i])
    /\ [][LET n == ltb.num_tokens
              r == ltb.block_size - ltb.num_tokens
              k == Len(call'.tokens)
          IN /\ call'.op = "append_token_id" =>
                  IF r = 0
                  THEN panic' # "none" /\ ltb' = ltb
                  ELSE /\ panic' = "none"
                       /\ ltb' = [ltb EXCEPT !.tokens[n + 1] = call'.tokens[1],
                                             !.num_tokens = n + 1]
             /\ call'.op = "append_tokens" =>
                  /\ ltb'.block_id = ltb.block_id
                  /\ ltb'.block_size = ltb.block_size
                  /\ \A i \in 1..n : ltb'.tokens[i] = ltb.tokens[i]
                  /\ IF k <= r
                     THEN /\ panic' = "none"
                          /\ ltb'.num_tokens = n + k
                          /\ \A i \in 1..k : ltb'.tokens[n + i] = call'.tokens[i]
                          /\ \A i \in (n + k + 1)..ltb.block_size :
                                ltb'.tokens[i] = ltb.tokens[i]
                     ELSE /\ panic' # "none"
                          /\ ltb'.num_tokens = ltb.block_size
                          /\ \A i \in 1..r : ltb'.tokens[n + i] = call'.tokens[i]]_vars

\* append_tokens of two or more tokens has aborted after filling the one slot
\* that was left of a block of two or more
C16_Witness ==
    /\ call.op = "append_tokens"
    /\ panic = "assert_not_full"
    /\ Len(call.tokens) >= 2
    /\ ltb.block_size >= 2
    /\ ltb.num_tokens = ltb.block_size
    /\ Len(call.appended) = ltb.block_size
    /\ call.appended[ltb.block_size] = call.tokens[1]
    /\ call.appended[ltb.block_size - 1] # call.tokens[1]

\* C17  Swap admission soundness: when can_swap_in_seq_group(group) has
\* answered true the swap_in(group) that follows completes: it pops from no
\* empty free list, meets no double free and does not abort otherwise; and
\* likewise swap_out(group) after can_swap_out_seq_group(group).
C17_SwapAdmissionSoundness ==
    [][/\ (\E g \in groups : can_swap_in_seq_group(Engine, g) /\ call'.op = "swap_in"
                              /\ call'.group = g)
            => panic' = "none"
       /\ (\E g \in groups : can_swap_out_seq_group(Engine, g) /\ call'.op = "swap_out"
                              /\ call'.group = g)
            => panic' = "none"]_vars

\* C18  Append admission soundness: when can_append_token_to_seq(group) has
\* answered true, append_token_slot_to_seq for a sequence of the group
\* completes: it does not exhaust the fast-tier pool and does not abort, also
\* when the last block is copied on write.
C18_AppendAdmissionSoundness ==
    [][\A s \in DOMAIN block_tables :
         (/\ can_append_token_to_seq(Engine, GroupOf(s))
          /\ call'.op = "append_token_slot_to_seq"
          /\ call'.seq = s)
         => panic' = "none"]_vars

\* One leg of a round trip of group g, taking blocks from the free list
\* to_free and releasing the sources into from_free: the leg completes, every
\* table keeps its length and the sharing between slots, and one block per
\* distinct block of the group changes sides.
SwapLeg(g, to_free, to_free_after, from_free, from_free_after) ==
    LET distinct == Cardinality(BlocksOf(block_tables, g))
    IN /\ panic' = "none"
       /\ \A s \in g \cap DOMAIN block_tables :
             s \in DOMAIN block_tables' /\ Len(block_tables'[s]) = Len(block_tables[s])
       /\ \A x, y \in GroupSlots(g) :
             (block_tables[x[1]][x[2]] = block_tables[y[1]][y[2]])
                <=> (block_tables'[x[1]][x[2]] = block_tables'[y[1]][y[2]])
       /\ Len(to_free_after) = Len(to_free) - distinct
       /\ Len(from_free_after) = Len(from_free) + distinct

\* C19  Swap round trip: for a group whose blocks no table outside the group
\* holds, an admitted swap_out followed by an admitted swap_in restores the
\* free counts of both pools, keeps every table's length and sharing, and
\* leaves the tables holding fast-tier blocks: swap_out completes and moves one
\* block per distinct block of the group from the slow-tier free list into the
\* tables, releasing the sources to the fast tier, and swap_in completes and
\* moves as many the other way.
C19_SwapRoundTrip ==
    [][\A g \in groups :
         (BlocksOf(block_tables, g) \cap BlocksOf(block_tables, SeqIds \ g) = {})
         => /\ (call'.op = "swap_out" /\ call'.group = g)
                  => SwapLeg(g, cpu_free, cpu_free', gpu_free, gpu_free')
            /\ (call'.op = "swap_in" /\ call'.group = g)
                  => /\ SwapLeg(g, gpu_free, gpu_free', cpu_free, cpu_free')
                     /\ \A d \in BlocksOf(block_tables', g) : d.pool = "gpu"]_vars

\* The blocks of pool `pool` that some table holds
Referenced(pool) == {b \in BlocksOf(block_tables, SeqIds) : b.pool = pool}

\* C20  Pool conservation: in every reachable state in which the engine runs,
\* for each tier, no block occurs twice in the free list, the free count is at
\* most the capacity the pool was created with, and the free count plus the
\* number of distinct blocks of the pool that block tables hold is that
\* capacity.
C20_PoolConservation ==
    panic = "none" =>
       /\ \A b \in Arcs : Occurrences(gpu_free, b) <= 1 /\ Occurrences(cpu_free, b) <= 1
       /\ Len(gpu_free) <= NumGpuBlocks
       /\ Len(cpu_free) <= NumCpuBlocks
       /\ Len(gpu_free) + Cardinality(Referenced("gpu")) = NumGpuBlocks
       /\ Len(cpu_free) + Cardinality(Referenced("cpu")) = NumCpuBlocks
====
